---- MODULE Spec2Model ----
(***************************************************************************)
(* Model of `cargo fuzz run` (src/main.rs): main's exit code and           *)
(* FuzzProject::exec_target's two ways of running the fuzzer:              *)
(*   jobs == 1  exec_cmd (process replacement on unix, Command::status     *)
(*              elsewhere);                                                *)
(*   jobs  > 1  `jobs` children spawned with piped stdout/stderr, their    *)
(*              lines forwarded with a "[id] " tag, select_all over the    *)
(*              children, and core.run(exits.join3(stdouts, stderrs)).     *)
(*                                                                         *)
(* Library behaviour the code relies on (futures 0.1, tokio-process 0.1):  *)
(*   - select_all polls its futures in vector order and resolves to the    *)
(*     first one that is ready (Ok or Err), handing back the others;       *)
(*   - join3 / join_all fail as soon as one member fails and succeed only  *)
(*     when every member has succeeded;                                    *)
(*   - lines(..).for_each(..) ends Ok at end of stream and Err at the      *)
(*     first read error or the first failing closure (writeln!);           *)
(*   - dropping a tokio_process::Child kills the child (kill on drop).     *)
(***************************************************************************)
EXTENDS Integers, Sequences, FiniteSets, TLC

\* ---- bounds ----
MaxJobs == 2
MaxLines == 2

\* ---- domains ----
Workers == 0 .. (MaxJobs - 1)
Streams == {"stdout", "stderr"}
Lines == {<<"a">>, <<"b">>}
ExitCodes == {0, 77}
NoCode == -1

VARIABLES
    jobs,      \* the JOBS argument as parsed (u16)
    pc,        \* where the calling process is
    proc,      \* per worker: "none" | "running" | "exited"
    status,    \* per worker: its exit code once exited
    killReq,   \* per worker: the kill requests sent to it ("race", "drop"),
               \* with "race_err" when the kill() of the loop returned Err
    emitted,   \* per worker and stream: the lines the worker wrote
    nread,     \* per worker and stream: how many lines the reader consumed
    wopen,     \* per worker and stream: write end of the pipe still open
    rstate,    \* per worker and stream: the for_each future
    console,   \* the caller's own stdout and stderr, line by line
    race,      \* the `exits` slot of join3: "pending" | "ok"
    jobnum,    \* the index select_all resolved to
    result,    \* what exec_target returned
    exitCode   \* the process's exit code

vars == <<jobs, pc, proc, status, killReq, emitted, nread,
          wopen, rstate, console, race, jobnum, result, exitCode>>

Pool == 0 .. (jobs - 1)

\* ---- formatting ----
Digit(d) ==
    CASE d = 0 -> "0" [] d = 1 -> "1" [] d = 2 -> "2" [] d = 3 -> "3"
      [] d = 4 -> "4" [] d = 5 -> "5" [] d = 6 -> "6" [] d = 7 -> "7"
      [] d = 8 -> "8" [] OTHER -> "9"

RECURSIVE Decimal(_)
Decimal(n) ==
    IF n < 10 THEN <<Digit(n)>>
    ELSE Decimal(n \div 10) \o <<Digit(n % 10)>>

\* variant: ids printed counting from one
TagOneBased(id, l) == <<"[">> \o Decimal(id + 1) \o <<"] ">> \o l

\* format!("[{}] {}", id, l)
Tag(id, l) == <<"[">> \o Decimal(id) \o <<"] ">> \o l

\* format!("Worker {} finished fuzzing", jobnum)
FinishedLine(n) == <<"Worker ">> \o Decimal(n) \o <<" finished fuzzing">>

\* ---- helpers ----
RECURSIVE SumLen(_, _)
SumLen(f, S) ==
    IF S = {} THEN 0
    ELSE LET w == CHOOSE x \in S : TRUE
         IN Len(f[w]["stdout"]) + Len(f[w]["stderr"]) + SumLen(f, S \ {w})

TotalLines ==
    SumLen(emitted, Workers) + Len(console["stdout"]) + Len(console["stderr"])

Min(S) == CHOOSE x \in S : \A y \in S : x <= y

\* the children whose poll is not NotReady: those that have exited and
\* those whose wait fails
Ready(failing) == {w \in Pool : proc[w] = "exited" \/ w \in failing}

\* variant: the last ready future wins instead of the first
SelectAllLast(rdy) == CHOOSE x \in rdy : \A y \in rdy : y <= x

\* select_all: the first future, in vector order, that is ready
SelectAll(rdy) == Min(rdy)

\* variant: a Child that is not killed when dropped (std::process::Child)
DropForget(kr, S) == kr

\* Drop for tokio_process::Child: kill on drop
Drop(kr, S) == [w \in Workers |-> IF w \in S THEN kr[w] \cup {"drop"} ELSE kr[w]]

\* variant: the kill loop skips children that have already exited
KillRestRunning(kr, rest, failed) ==
    [w \in Workers |->
        IF w \in rest /\ proc[w] = "running"
        THEN kr[w] \cup {"race", "drop"}
                   \cup (IF w \in failed THEN {"race_err"} ELSE {})
        ELSE kr[w]]

\* `for mut ch in rest { let _ = ch.kill(); }`, each ch dropped in turn;
\* `failed` are the children whose kill() returned Err, which `let _ =`
\* discards
KillRest(kr, rest, failed) ==
    [w \in Workers |->
        IF w \in rest
        THEN kr[w] \cup {"race", "drop"}
                   \cup (IF w \in failed THEN {"race_err"} ELSE {})
        ELSE kr[w]]

\* the children the program still holds: all of them until select_all
\* resolves, none afterwards
Held == IF race = "pending" THEN {w \in Pool : proc[w] # "none"} ELSE {}

\* the for_each futures once join3 has dropped them
Dropped ==
    [w \in Workers |-> [s \in Streams |-> IF w \in Pool THEN "dropped" ELSE "unset"]]

\* variant: main exits with the winning worker's status
MainExitStatus(r) ==
    IF r = "ok" THEN (IF jobnum \in Workers THEN status[jobnum] ELSE 0) ELSE 1

\* format!("{:?}", cmd): the one Command every worker is spawned from
CmdDebug == <<"cmd">>

\* the message chained onto the error exec_target returns with
Message(r) ==
    CASE r \in {"exec_err", "spawn_err"} ->
             <<"could not execute command: ">> \o CmdDebug
      [] r \in {"wait_err", "read_err", "write_err"} ->
             <<"could not run the processes: ">> \o CmdDebug
      [] OTHER -> <<>>

\* main: .map(|_| 0).unwrap_or_else(|err| { report_error; 1 })
MainExit(r) == IF r = "ok" THEN 0 ELSE 1

Init ==
    /\ jobs \in 0 .. MaxJobs
    /\ pc = "args"
    /\ proc = [w \in Workers |-> "none"]
    /\ status = [w \in Workers |-> NoCode]
    /\ killReq = [w \in Workers |-> {}]
    /\ emitted = [w \in Workers |-> [s \in Streams |-> <<>>]]
    /\ nread = [w \in Workers |-> [s \in Streams |-> 0]]
    /\ wopen = [w \in Workers |-> [s \in Streams |-> FALSE]]
    /\ rstate = [w \in Workers |-> [s \in Streams |-> "unset"]]
    /\ console = [s \in Streams |-> <<>>]
    /\ race = "pending"
    /\ jobnum = NoCode
    /\ result = "none"
    /\ exitCode = NoCode

\* exec_target returns r and main exits
Return(r) ==
    /\ pc' = "done"
    /\ result' = r
    /\ exitCode' = MainExit(r)

\* ---- argument validation ----
\* the JOBS validator: Ok(0) => "0 jobs?"; clap reports it and exits
RejectJobs ==
    /\ pc = "args"
    /\ jobs = 0
    /\ pc' = "done"
    /\ result' = "usage_err"
    /\ exitCode' = 1
    /\ UNCHANGED <<jobs, proc, status, killReq, emitted, nread,
                   wopen, rstate, console, race, jobnum>>

\* ---- jobs == 1 ----
\* unix exec_cmd: cmd.exec() replaces the process image
ExecReplace ==
    /\ pc = "args"
    /\ jobs = 1
    /\ pc' = "replaced"
    /\ proc' = [proc EXCEPT ![0] = "running"]
    /\ UNCHANGED <<jobs, status, killReq, emitted, nread,
                   wopen, rstate, console, race, jobnum, result, exitCode>>

\* cmd.exec() returned: it only returns on failure; cmd.status() failed to
\* spawn: both give Err through `?`
ExecFails ==
    /\ pc = "args"
    /\ jobs = 1
    /\ Return("exec_err")
    /\ UNCHANGED <<jobs, proc, status, killReq, emitted, nread,
                   wopen, rstate, console, race, jobnum>>

\* the replaced process is the worker: its exit is the process's exit
ReplacedExit ==
    /\ pc = "replaced"
    /\ \E c \in ExitCodes :
         /\ status' = [status EXCEPT ![0] = c]
         /\ exitCode' = c
    /\ proc' = [proc EXCEPT ![0] = "exited"]
    /\ pc' = "done"
    /\ UNCHANGED <<jobs, killReq, emitted, nread,
                   wopen, rstate, console, race, jobnum, result>>

\* non-unix exec_cmd: cmd.status() spawns the worker with inherited stdio
StatusSpawn ==
    /\ pc = "args"
    /\ jobs = 1
    /\ pc' = "status"
    /\ proc' = [proc EXCEPT ![0] = "running"]
    /\ UNCHANGED <<jobs, status, killReq, emitted, nread,
                   wopen, rstate, console, race, jobnum, result, exitCode>>

\* cmd.status() returned: Ok(status) is discarded by `exec_cmd(..)?; Ok(())`,
\* Err goes through `?`
StatusReturn ==
    /\ pc = "status"
    /\ \E failing \in SUBSET Pool :
         /\ 0 \in Ready(failing)
         /\ Return(IF 0 \in failing THEN "wait_err" ELSE "ok")
    /\ UNCHANGED <<jobs, proc, status, killReq, emitted, nread,
                   wopen, rstate, console, race, jobnum>>

\* a worker with inherited stdio writes straight to the caller's streams
EmitInherited(s, l) ==
    /\ pc \in {"replaced", "status"}
    /\ proc[0] = "running"
    /\ TotalLines < MaxLines
    /\ console' = [console EXCEPT ![s] = Append(@, l)]
    /\ UNCHANGED <<jobs, pc, proc, status, killReq, emitted,
                   nread, wopen, rstate, race, jobnum, result, exitCode>>

\* ---- jobs > 1: spawning ----
\* `if jobs == 1 {..} else {`
EnterPool ==
    /\ pc = "args"
    /\ jobs > 1
    /\ pc' = "spawning"
    /\ UNCHANGED <<jobs, proc, status, killReq, emitted, nread,
                   wopen, rstate, console, race, jobnum, result, exitCode>>

NextToSpawn == Cardinality({w \in Pool : proc[w] # "none"})

\* variant: the workers are spawned in any order
SpawnAsyncAny ==
    /\ pc = "spawning"
    /\ NextToSpawn < jobs
    /\ \E k \in {w \in Pool : proc[w] = "none"} :
         /\ proc' = [proc EXCEPT ![k] = "running"]
         /\ wopen' = [wopen EXCEPT ![k] = [s \in Streams |-> TRUE]]
    /\ UNCHANGED <<jobs, pc, status, killReq, emitted, nread,
                   rstate, console, race, jobnum, result, exitCode>>

\* one cmd.spawn_async(..) of the (0..jobs).map(..) that succeeds
SpawnAsync ==
    /\ pc = "spawning"
    /\ NextToSpawn < jobs
    /\ LET k == NextToSpawn IN
         /\ proc' = [proc EXCEPT ![k] = "running"]
         /\ wopen' = [wopen EXCEPT ![k] = [s \in Streams |-> TRUE]]
    /\ UNCHANGED <<jobs, pc, status, killReq, emitted, nread,
                   rstate, console, race, jobnum, result, exitCode>>

\* variant: the spawn error is returned with the earlier children left alone
SpawnFailLeak ==
    /\ pc = "spawning"
    /\ NextToSpawn < jobs
    /\ Return("spawn_err")
    /\ UNCHANGED <<jobs, proc, status, killReq, emitted, nread,
                   wopen, rstate, console, race, jobnum>>

\* one cmd.spawn_async(..) that fails: collect::<Result<Vec<_>>>() stops,
\* the children collected so far are dropped, `?` returns the error
SpawnFail ==
    /\ pc = "spawning"
    /\ NextToSpawn < jobs
    /\ killReq' = Drop(killReq, Held)
    /\ Return("spawn_err")
    /\ UNCHANGED <<jobs, proc, status, emitted, nread,
                   wopen, rstate, console, race, jobnum>>

\* variant: the range of the spawn loop is one short
RunCoreShort ==
    /\ pc = "spawning"
    /\ NextToSpawn = jobs - 1
    /\ pc' = "running"
    /\ rstate' = [w \in Workers |->
                    [s \in Streams |-> IF w \in Pool THEN "open" ELSE "unset"]]
    /\ UNCHANGED <<jobs, proc, status, killReq, emitted, nread,
                   wopen, console, race, jobnum, result, exitCode>>

\* all spawned: the stdout/stderr futures and `exits` are built and
\* core.run(exits.join3(stdouts, stderrs)) starts
RunCore ==
    /\ pc = "spawning"
    /\ NextToSpawn = jobs
    /\ pc' = "running"
    /\ rstate' = [w \in Workers |->
                    [s \in Streams |-> IF w \in Pool THEN "open" ELSE "unset"]]
    /\ UNCHANGED <<jobs, proc, status, killReq, emitted, nread,
                   wopen, console, race, jobnum, result, exitCode>>

\* ---- the workers (environment) ----
Emit(w, s, l) ==
    /\ pc \in {"spawning", "running"}
    /\ proc[w] = "running"
    /\ wopen[w][s]
    /\ TotalLines < MaxLines
    /\ emitted' = [emitted EXCEPT ![w][s] = Append(@, l)]
    /\ UNCHANGED <<jobs, pc, proc, status, killReq, nread,
                   wopen, rstate, console, race, jobnum, result, exitCode>>

\* a worker terminates, by itself or because of a kill
WorkerExit(w, c) ==
    /\ pc \in {"status", "spawning", "running"}
    /\ proc[w] = "running"
    /\ proc' = [proc EXCEPT ![w] = "exited"]
    /\ status' = [status EXCEPT ![w] = c]
    /\ UNCHANGED <<jobs, pc, killReq, emitted, nread,
                   wopen, rstate, console, race, jobnum, result, exitCode>>

\* the write ends of a worker's pipes are closed: by the worker itself, or
\* once it and every descendant holding the pipes are gone
CloseStreams(w) ==
    /\ pc \in {"spawning", "running"}
    /\ proc[w] # "none"
    /\ \E s \in Streams : wopen[w][s]
    /\ wopen' = [wopen EXCEPT ![w] = [s \in Streams |-> FALSE]]
    /\ UNCHANGED <<jobs, pc, proc, status, killReq, emitted,
                   nread, rstate, console, race, jobnum, result, exitCode>>

\* ---- jobs > 1: the event loop ----
\* join3 fails: core.run returns Err, the futures are dropped (and with
\* them the children select_all still holds), chain_err, `?`
Abort(r) ==
    /\ killReq' = Drop(killReq, Held)
    /\ rstate' = Dropped
    /\ Return(r)

\* variant: the Err arm returns without running the kill loop
PollExitsErrSkipsKill ==
    /\ pc = "running"
    /\ race = "pending"
    /\ \E failing \in SUBSET Pool :
         /\ Ready(failing) # {}
         /\ LET n == SelectAll(Ready(failing))
                rest == Pool \ {n}
            IN IF n \notin failing
               THEN /\ race' = "ok"
                    /\ jobnum' = n
                    /\ \E failed \in SUBSET rest :
                         killReq' = KillRest(Drop(killReq, {n}), rest, failed)
                    /\ UNCHANGED <<pc, rstate, result, exitCode>>
               ELSE /\ killReq' = Drop(killReq, Pool)
                    /\ rstate' = Dropped
                    /\ Return("wait_err")
                    /\ UNCHANGED <<race, jobnum>>
    /\ UNCHANGED <<jobs, proc, status, emitted, nread, wopen, console>>

\* variant: a kill() that returns Err fails the run
PollExitsKillChecked ==
    /\ pc = "running"
    /\ race = "pending"
    /\ \E failing \in SUBSET Pool :
         /\ Ready(failing) # {}
         /\ LET n == SelectAll(Ready(failing))
                rest == Pool \ {n}
            IN \E failed \in SUBSET rest :
                 LET kr == KillRest(Drop(killReq, {n}), rest, failed)
                 IN IF n \notin failing /\ failed = {}
                    THEN /\ race' = "ok"
                         /\ jobnum' = n
                         /\ killReq' = kr
                         /\ UNCHANGED <<pc, rstate, result, exitCode>>
                    ELSE /\ killReq' = kr
                         /\ rstate' = Dropped
                         /\ Return(IF failed # {} THEN "kill_err" ELSE "wait_err")
                         /\ UNCHANGED <<race, jobnum>>
    /\ UNCHANGED <<jobs, proc, status, emitted, nread, wopen, console>>

\* select_all(chs).then(..) resolves: each child's poll is NotReady while
\* it runs, Ready once it has exited, or fails (`failing`); each kill() of
\* the loop returns Ok or Err (`failed`)
\* variant: the race waits for every child (join_all) instead of the first
PollExitsJoinAll ==
    /\ pc = "running"
    /\ race = "pending"
    /\ \E failing \in SUBSET Pool :
         /\ Ready(failing) # {}
         /\ \A w \in Pool : proc[w] = "exited"
         /\ LET n == SelectAll(Ready(failing))
                rest == Pool \ {n}
            IN \E failed \in SUBSET rest :
                 LET kr == KillRest(Drop(killReq, {n}), rest, failed)
                 IN IF n \notin failing
                    THEN /\ race' = "ok"
                         /\ jobnum' = n
                         /\ killReq' = kr
                         /\ UNCHANGED <<pc, rstate, result, exitCode>>
                    ELSE /\ killReq' = kr
                         /\ rstate' = Dropped
                         /\ Return("wait_err")
                         /\ UNCHANGED <<race, jobnum>>
    /\ UNCHANGED <<jobs, proc, status, emitted, nread, wopen, console>>

PollExits ==
    /\ pc = "running"
    /\ race = "pending"
    /\ \E failing \in SUBSET Pool :
         /\ Ready(failing) # {}
         /\ LET n == SelectAll(Ready(failing))
                rest == Pool \ {n}
            IN \E failed \in SUBSET rest :
                 LET kr == KillRest(Drop(killReq, {n}), rest, failed)
                 IN IF n \notin failing
                    THEN \* Ok((_, n, v)) => (ok(n), v)
                         /\ race' = "ok"
                         /\ jobnum' = n
                         /\ killReq' = kr
                         /\ UNCHANGED <<pc, rstate, result, exitCode>>
                    ELSE \* Err((e, _, v)) => (err(e), v): join3 fails at once
                         /\ killReq' = kr
                         /\ rstate' = Dropped
                         /\ Return("wait_err")
                         /\ UNCHANGED <<race, jobnum>>
    /\ UNCHANGED <<jobs, proc, status, emitted, nread, wopen, console>>

\* variant: the reader hands over the newest line of the pipe, not the next
ForwardNewest(w, s) ==
    /\ pc = "running"
    /\ rstate[w][s] = "open"
    /\ nread[w][s] < Len(emitted[w][s])
    /\ nread' = [nread EXCEPT ![w][s] = @ + 1]
    /\ console' = [console EXCEPT
                     ![s] = Append(@, Tag(w, emitted[w][s][Len(emitted[w][s])]))]
    /\ UNCHANGED <<jobs, pc, proc, status, killReq, emitted,
                   wopen, rstate, race, jobnum, result, exitCode>>

\* variant: the streams are read one worker after the other
ForwardInTurn(w, s) ==
    /\ pc = "running"
    /\ rstate[w][s] = "open"
    /\ \A v \in Pool : v < w => rstate[v][s] = "eof"
    /\ nread[w][s] < Len(emitted[w][s])
    /\ nread' = [nread EXCEPT ![w][s] = @ + 1]
    /\ console' = [console EXCEPT
                     ![s] = Append(@, Tag(w, emitted[w][s][nread[w][s] + 1]))]
    /\ UNCHANGED <<jobs, pc, proc, status, killReq, emitted,
                   wopen, rstate, race, jobnum, result, exitCode>>

\* for_each closure: writeln!(stdout()/stderr(), "[{}] {}", id, l) succeeds
Forward(w, s) ==
    /\ pc = "running"
    /\ rstate[w][s] = "open"
    /\ nread[w][s] < Len(emitted[w][s])
    /\ nread' = [nread EXCEPT ![w][s] = @ + 1]
    /\ console' = [console EXCEPT
                     ![s] = Append(@, Tag(w, emitted[w][s][nread[w][s] + 1]))]
    /\ UNCHANGED <<jobs, pc, proc, status, killReq, emitted,
                   wopen, rstate, race, jobnum, result, exitCode>>

\* for_each closure: writeln! fails
WriteFails(w, s) ==
    /\ pc = "running"
    /\ rstate[w][s] = "open"
    /\ nread[w][s] < Len(emitted[w][s])
    /\ nread' = [nread EXCEPT ![w][s] = @ + 1]
    /\ Abort("write_err")
    /\ UNCHANGED <<jobs, proc, status, emitted,
                   wopen, console, race, jobnum>>

\* lines() hits end of stream: the for_each future is done
\* variant: a stream reaching its end cancels the worker it belongs to
ReadEofKills(w, s) ==
    /\ pc = "running"
    /\ rstate[w][s] = "open"
    /\ nread[w][s] = Len(emitted[w][s])
    /\ ~wopen[w][s]
    /\ rstate' = [rstate EXCEPT ![w][s] = "eof"]
    /\ killReq' = Drop(killReq, {w})
    /\ UNCHANGED <<jobs, pc, proc, status, emitted,
                   nread, wopen, console, race, jobnum, result, exitCode>>

ReadEof(w, s) ==
    /\ pc = "running"
    /\ rstate[w][s] = "open"
    /\ nread[w][s] = Len(emitted[w][s])
    /\ ~wopen[w][s]
    /\ rstate' = [rstate EXCEPT ![w][s] = "eof"]
    /\ UNCHANGED <<jobs, pc, proc, status, killReq, emitted,
                   nread, wopen, console, race, jobnum, result, exitCode>>

\* lines() yields Err (read error, invalid UTF-8)
ReadError(w, s) ==
    /\ pc = "running"
    /\ rstate[w][s] = "open"
    /\ Abort("read_err")
    /\ UNCHANGED <<jobs, proc, status, emitted, nread,
                   wopen, console, race, jobnum>>

\* variant: the run returns as soon as the exit race is resolved
\* variant: the status line waits for the winner's own streams only
FinishWinnerOnly ==
    /\ pc = "running"
    /\ race = "ok"
    /\ \A s \in Streams : rstate[jobnum][s] = "eof"
    /\ console' = [console EXCEPT !["stdout"] = Append(@, FinishedLine(jobnum))]
    /\ Return("ok")
    /\ UNCHANGED <<jobs, proc, status, killReq, emitted, nread,
                   wopen, rstate, race, jobnum>>

FinishEarly ==
    /\ pc = "running"
    /\ race = "ok"
    /\ console' = [console EXCEPT !["stdout"] = Append(@, FinishedLine(jobnum))]
    /\ Return("ok")
    /\ UNCHANGED <<jobs, proc, status, killReq, emitted, nread,
                   wopen, rstate, race, jobnum>>

\* join3 is complete: println!("Worker {} finished fuzzing", jobnum); Ok(())
Finish ==
    /\ pc = "running"
    /\ race = "ok"
    /\ \A w \in Pool : \A s \in Streams : rstate[w][s] = "eof"
    /\ console' = [console EXCEPT !["stdout"] = Append(@, FinishedLine(jobnum))]
    /\ Return("ok")
    /\ UNCHANGED <<jobs, proc, status, killReq, emitted, nread,
                   wopen, rstate, race, jobnum>>

Next ==
    \/ RejectJobs
    \/ ExecReplace
    \/ ExecFails
    \/ ReplacedExit
    \/ StatusSpawn
    \/ StatusReturn
    \/ \E s \in Streams : \E l \in Lines : EmitInherited(s, l)
    \/ EnterPool
    \/ SpawnAsync
    \/ SpawnFail
    \/ RunCore
    \/ \E w \in Workers : \E s \in Streams : \E l \in Lines : Emit(w, s, l)
    \/ \E w \in Workers : \E c \in ExitCodes : WorkerExit(w, c)
    \/ \E w \in Workers : CloseStreams(w)
    \/ PollExits
    \/ \E w \in Workers : \E s \in Streams : Forward(w, s)
    \/ \E w \in Workers : \E s \in Streams : WriteFails(w, s)
    \/ \E w \in Workers : \E s \in Streams : ReadEof(w, s)
    \/ \E w \in Workers : \E s \in Streams : ReadError(w, s)
    \/ Finish

Spec == Init /\ [][Next]_vars

\* ---- scheduling ----
\* some worker exits while none has exited yet
FirstExit ==
    /\ \A v \in Pool : proc[v] # "exited"
    /\ \E w \in Workers : \E c \in ExitCodes : WorkerExit(w, c)

\* the pipes of a worker that has exited or has been sent a kill close
StreamsEnd(w) ==
    /\ (proc[w] = "exited" \/ killReq[w] # {})
    /\ CloseStreams(w)

\* the poll of the exit race that follows the report of a child's exit
ExitReported ==
    /\ \E w \in Pool : proc[w] = "exited"
    /\ PollExits

\* the sequential code of exec_target runs on: each spawn_async returns,
\* and core.run is entered after the last one
ProgramFair ==
    /\ WF_vars(SpawnAsync \/ SpawnFail)
    /\ WF_vars(RunCore)

\* core.run polls a future whenever its source is ready: the exit race
\* when a child's exit is reported, a reader when its pipe has a line or
\* has reached its end, and it returns when join3 is complete
LoopFair ==
    /\ WF_vars(ExitReported)
    /\ \A w \in Workers : \A s \in Streams :
          /\ WF_vars(Forward(w, s) \/ WriteFails(w, s))
          /\ WF_vars(ReadEof(w, s))
    /\ WF_vars(Finish)

\* the workers: at least one exits, and the streams of a worker end once
\* it has exited or has been killed
WorkersFair ==
    /\ WF_vars(FirstExit)
    /\ \A w \in Workers : WF_vars(StreamsEnd(w))

LiveSpec == Spec /\ ProgramFair /\ LoopFair /\ WorkersFair

\* ---- properties ----
\* the tag format!("[{}] ", id) puts in front of a forwarded line
TagPrefix(w) == <<"[">> \o Decimal(w) \o <<"] ">>

HasTag(e, w) ==
    /\ Len(e) >= Len(TagPrefix(w))
    /\ SubSeq(e, 1, Len(TagPrefix(w))) = TagPrefix(w)

\* the lines of worker w on the caller's stream s, tags removed
ForwardedLines(w, s) ==
    LET tagged == SelectSeq(console[s], LAMBDA e : HasTag(e, w))
    IN [i \in 1 .. Len(tagged) |->
          SubSeq(tagged[i], Len(TagPrefix(w)) + 1, Len(tagged[i]))]

IsPrefix(p, q) == Len(p) <= Len(q) /\ SubSeq(q, 1, Len(p)) = p

\* the "Worker <id> finished fuzzing" lines printed so far
FinishedLines ==
    SelectSeq(console["stdout"], LAMBDA e : Len(e) > 0 /\ e[1] = "Worker ")

PoolRun == jobs > 1

\* C1: with all workers spawned, the winner the pool records and prints is
\* the first child, in spawn order, whose exit the poll of select_all
\* reports: it is a worker of the pool that has exited, no child before it
\* was ready at that poll, and the line printed on return names that index.
C1_WinnerIsFirstReportedExit ==
    [][/\ (race = "pending" /\ race' = "ok") =>
             /\ jobnum' \in Pool
             /\ proc[jobnum'] = "exited"
             /\ \A w \in Pool : w < jobnum' => proc[w] = "running"
       /\ (PoolRun /\ result = "none" /\ result' = "ok") =>
             /\ race = "ok"
             /\ proc[jobnum] = "exited"
             /\ FinishedLines' = <<FinishedLine(jobnum)>>]_vars

\* worker 1 won although worker 0 has exited too (later): worker 0 is not
\* the one reported
C1_Witness ==
    /\ PoolRun /\ result = "ok"
    /\ jobnum = 1 /\ proc[0] = "exited"
    /\ FinishedLines = <<FinishedLine(1)>>

\* C2 (as claimed): once select_all has resolved to a winner, that winner
\* is what the run finally returns: the run ends Ok and reports it.
C2_ResolvedWinnerIsReturned ==
    (pc = "done" /\ race = "ok") =>
        (result = "ok" /\ FinishedLines = <<FinishedLine(jobnum)>>)

\* C3: in the step in which select_all resolves to an exited worker, a kill
\* is requested for every other worker of the pool, whatever that worker is
\* doing (running, silent, with unread output, already exited).
C3_KillOthersOnFirstExit ==
    [][(race = "pending" /\ race' = "ok") =>
          \A w \in Pool \ {jobnum'} :
              "race" \in killReq'[w] /\ "race" \notin killReq[w]]_vars

\* a silent, still running worker and the kill sent to it
C3_Witness ==
    /\ pc = "running" /\ race = "ok"
    /\ \E w \in Pool \ {jobnum} :
         /\ "race" \in killReq[w]
         /\ proc[w] = "running"
         /\ emitted[w]["stdout"] = <<>> /\ emitted[w]["stderr"] = <<>>

\* C4: when the multi-worker run has returned, with a winner or an error,
\* every worker that was spawned has exited or has been sent a kill.
C4_NoWorkerLeftRunning ==
    (PoolRun /\ pc = "done") =>
        \A w \in Pool : proc[w] = "running" => killReq[w] # {}

\* a read error before any exit: the run returned and a worker that is
\* still running has been sent a kill
C4_Witness ==
    /\ PoolRun /\ pc = "done" /\ result = "read_err" /\ race = "pending"
    /\ \E w \in Pool : proc[w] = "running" /\ killReq[w] # {}

\* C5: when a spawn fails the run fails with the spawn error, every worker
\* spawned before is sent a kill, and nothing was multiplexed or raced:
\* no stream future exists, nothing was written, no winner was recorded.
C5_SpawnFailureFailsWholePool ==
    (result = "spawn_err") =>
        /\ pc = "done" /\ exitCode # 0
        /\ \A w \in Pool : proc[w] # "none" => killReq[w] # {}
        /\ \A w \in Workers : \A s \in Streams : rstate[w][s] = "unset"
        /\ \A w \in Workers : \A s \in Streams : nread[w][s] = 0
        /\ console = [s \in Streams |-> <<>>]
        /\ race = "pending" /\ jobnum = NoCode

\* the first worker was spawned and wrote a line, the second spawn failed
C5_Witness ==
    /\ result = "spawn_err"
    /\ proc[0] = "running" /\ proc[1] = "none"
    /\ Len(emitted[0]["stdout"]) > 0

\* C6: when the poll of select_all reports a failing wait first, the run
\* ends in that step with the error: a kill is requested for every other
\* worker, the exit code is non-zero and no "finished" line is printed.
C6_WaitFailureWinsRace ==
    [][(pc = "running" /\ race = "pending" /\ pc' = "done"
          /\ result' \notin {"read_err", "write_err"}) =>
             /\ result' = "wait_err"
             /\ exitCode' # 0
             /\ \E n \in Pool :
                   \A w \in Pool \ {n} : "race" \in killReq'[w]
             /\ FinishedLines' = <<>>]_vars

\* a wait failure ended the run and a running worker got the kill
C6_Witness ==
    /\ PoolRun /\ result = "wait_err"
    /\ \E w \in Pool : proc[w] = "running" /\ "race" \in killReq[w]

\* C7 (as claimed): an error reading a worker's stream does not fail the
\* run.
C7_ReadErrorDoesNotFailRun == result # "read_err"

\* C8 (as claimed): with one job the process's exit code is the worker's
\* exit code, on the exec path and on the spawn-and-wait path, and no line
\* carries a tag.
C8_SingleJobPassThrough ==
    (jobs = 1 /\ pc = "done" /\ proc[0] = "exited") =>
        /\ exitCode = status[0]
        /\ \A s \in Streams : ForwardedLines(0, s) = <<>>

\* C9: a multi-worker run exits 0 exactly when the orchestrator ended
\* without an error of its own, whatever the winner's exit status, and
\* non-zero when a spawn, a wait, a read or a write failed.
C9_ExitCodeReflectsOrchestration ==
    (PoolRun /\ pc = "done") =>
        /\ result \in {"ok", "spawn_err", "wait_err", "read_err", "write_err"}
        /\ (result = "ok") => exitCode = 0
        /\ (result # "ok") => exitCode # 0

\* the winner exited 77 and the process exits 0
C9_Witness ==
    /\ PoolRun /\ pc = "done" /\ result = "ok"
    /\ status[jobnum] = 77 /\ exitCode = 0

\* C10: for every worker and each of its streams, the lines forwarded with
\* its id to the caller's stream are always a prefix of the lines it wrote,
\* in the same order.
C10_LineOrderPreserved ==
    \A w \in Pool : \A s \in Streams :
        IsPrefix(ForwardedLines(w, s), emitted[w][s])

\* two different lines of one worker forwarded on one stream
C10_Witness ==
    /\ PoolRun
    /\ \E w \in Pool : \E s \in Streams :
         /\ Len(ForwardedLines(w, s)) = 2
         /\ emitted[w][s][1] # emitted[w][s][2]

\* C11: in a multi-worker run every line on the caller's stdout or stderr
\* other than the final status line is "[<id>] <line>": for each worker and
\* stream, the lines carrying that worker's id on the caller's stream of
\* the same name are exactly the lines read so far from that worker's
\* stream of that name, so no line carries another worker's id or appears
\* on the other stream.
C11_TaggedWithOwnIdOnOwnStream ==
    PoolRun =>
      \A s \in Streams :
        /\ \A i \in 1 .. Len(console[s]) :
              \/ \E w \in Pool : \E l \in Lines : console[s][i] = TagPrefix(w) \o l
              \/ s = "stdout" /\ \E n \in Pool : console[s][i] = FinishedLine(n)
        /\ \A w \in Pool :
              /\ IsPrefix(ForwardedLines(w, s), emitted[w][s])
              /\ Len(ForwardedLines(w, s)) <= nread[w][s]
              /\ pc = "running" => Len(ForwardedLines(w, s)) = nread[w][s]

\* worker 0's stdout line and worker 1's stderr line, each on its stream
\* under its own id
C11_Witness ==
    /\ PoolRun
    /\ console["stdout"] = <<TagPrefix(0) \o <<"a">>>>
    /\ console["stderr"] = <<TagPrefix(1) \o <<"b">>>>
    /\ emitted[0]["stderr"] = <<>> /\ emitted[1]["stdout"] = <<>>

\* a line of worker w's stream s that the reader has not consumed yet
LinePending(w, s) == nread[w][s] < Len(emitted[w][s])

\* C12 (as claimed): in every reachable state in which a running worker
\* has a line available on one of its streams, forwarding it is enabled.
C12_ForwardEnabledInEveryState ==
    \A w \in Pool : \A s \in Streams :
        (proc[w] = "running" /\ LinePending(w, s)) => ENABLED Forward(w, s)

\* C12 (amended): while the event loop runs, forwarding an available line
\* of any worker is enabled, whatever the other workers do and whether or
\* not an exit has been observed.
C12_ForwardEnabledWhileLoopRuns ==
    pc = "running" =>
        \A w \in Pool : \A s \in Streams :
            LinePending(w, s) => ENABLED Forward(w, s)

\* worker 1 has a line to forward while worker 0 runs and has never
\* written anything
C12_Witness ==
    /\ pc = "running" /\ race = "pending"
    /\ proc[0] = "running" /\ proc[1] = "running"
    /\ emitted[0]["stdout"] = <<>> /\ emitted[0]["stderr"] = <<>>
    /\ LinePending(1, "stdout")
    /\ ENABLED Forward(1, "stdout")

\* C13 (as claimed): once the first exit is observed and the kills are
\* issued, the run can return at once, without waiting for the killed
\* workers to terminate or for their streams to close.
C13_ReturnsWithoutWaiting ==
    (pc = "running" /\ race = "ok") => ENABLED Finish

\* C13 (amended): the run returns its winner only when every worker's
\* stdout and stderr have been closed and read to the end; it does not
\* wait for the killed workers to have exited (see the witness).
C13_ReturnWaitsForStreamsNotExits ==
    (PoolRun /\ result = "ok") =>
        \A w \in Pool : \A s \in Streams :
            ~wopen[w][s] /\ nread[w][s] = Len(emitted[w][s])

\* the run has returned its winner while a killed worker, whose streams
\* are closed, has not exited
C13_Witness ==
    /\ PoolRun /\ result = "ok"
    /\ \E w \in Pool \ {jobnum} :
         /\ proc[w] = "running" /\ "race" \in killReq[w]
         /\ \A s \in Streams : ~wopen[w][s]

\* C14: a kill() of the loop that returns Err (the worker has already
\* exited, or the signal could not be delivered) changes neither the
\* outcome recorded in that step nor any worker's state, and does not fail
\* the run: the step records the winner exactly as with successful kills,
\* and the only failure it can end with is the wait failure that won.
C14_KillFailureSwallowed ==
    [][(\E w \in Pool : "race_err" \in killReq'[w] /\ "race_err" \notin killReq[w]) =>
          /\ proc' = proc /\ status' = status
          /\ result' \in {"none", "wait_err"}
          /\ result' = "none" =>
                /\ pc' = "running" /\ race' = "ok"
                /\ jobnum' \in Pool /\ proc[jobnum'] = "exited"
                /\ exitCode' = NoCode]_vars

\* the run returned its winner although the kill of a worker that had
\* already exited returned Err
C14_Witness ==
    /\ PoolRun /\ result = "ok" /\ exitCode = 0
    /\ \E w \in Pool \ {jobnum} : "race_err" \in killReq[w] /\ proc[w] = "exited"

Spawned == {w \in Workers : proc[w] # "none"}

\* C15: a run with N > 1 jobs that got past spawning has spawned exactly N
\* workers, numbered 0 .. N-1; the stream readers, the ids on forwarded
\* lines and the recorded winner all lie in 0 .. N-1, one reader pair per
\* worker. With 0 jobs nothing is ever spawned and the run is rejected.
C15_ExactlyNWorkersWithIds ==
    /\ jobs = 0 =>
          /\ Spawned = {}
          /\ pc \in {"args", "done"}
          /\ pc = "done" => (result = "usage_err" /\ exitCode # 0)
    /\ (PoolRun /\ (pc = "running" \/ result \in {"ok", "wait_err", "read_err", "write_err"})) =>
          /\ Spawned = 0 .. (jobs - 1)
          /\ Cardinality(Spawned) = jobs
          /\ {w \in Workers : rstate[w]["stdout"] # "unset"} = 0 .. (jobs - 1)
          /\ {w \in Workers : rstate[w]["stderr"] # "unset"} = 0 .. (jobs - 1)
          /\ race = "ok" => jobnum \in 0 .. (jobs - 1)
          /\ \A s \in Streams : \A i \in 1 .. Len(console[s]) :
                \/ \E w \in 0 .. (jobs - 1) : HasTag(console[s][i], w)
                \/ console[s][i] \in {FinishedLine(n) : n \in 0 .. (jobs - 1)}

\* a finished run of the largest pool in which the first and the last
\* worker both had a line forwarded
C15_Witness ==
    /\ jobs = MaxJobs /\ result = "ok"
    /\ Cardinality(Spawned) = MaxJobs
    /\ \E s \in Streams : ForwardedLines(0, s) # <<>>
    /\ \E s \in Streams : ForwardedLines(MaxJobs - 1, s) # <<>>

\* what the caller gets back from a run: the returned value, the process
\* exit code and the status line
Outcome == <<result, exitCode, FinishedLines>>

\* C16 (as claimed): the outcome of a run carries the winner's own exit
\* status: a run whose winner exited non-zero does not return the outcome
\* of a run in which the same worker won with exit status 0.
C16_OutcomeCarriesWinnerStatus ==
    (PoolRun /\ pc = "done" /\ result = "ok" /\ status[jobnum] # 0) =>
        Outcome # <<"ok", 0, <<FinishedLine(jobnum)>>>>

\* sub occurs in msg as a run of consecutive tokens
Contains(msg, sub) ==
    \E i \in 0 .. (Len(msg) - Len(sub)) :
        \A j \in 1 .. Len(sub) : msg[i + j] = sub[j]

\* C17 (as claimed): when spawning worker k fails, the error returned to
\* the caller names the index k of the worker that failed to spawn.
C17_SpawnErrorNamesWorker ==
    (PoolRun /\ result = "spawn_err") =>
        Contains(Message(result), Decimal(NextToSpawn))

\* this step sends some worker a termination request it had not been sent
KillSent == \E w \in Workers : killReq'[w] # killReq[w]

\* this step runs the kill loop over the workers that did not win
KillLoopRuns ==
    \E w \in Workers : "race" \in killReq'[w] /\ "race" \notin killReq[w]

\* this step is the one in which select_all reports the first exit or the
\* first failing wait
RaceResolves ==
    /\ pc = "running" /\ race = "pending"
    /\ (race' = "ok" \/ result' = "wait_err")

\* C18 (as claimed): no worker is sent a termination request except in
\* the one step in which the first exit (or wait failure) is observed.
C18_NoKillBeforeFirstExit == [][KillSent => RaceResolves]_vars

\* C18 (amended): the kill loop runs at most once, in the step in which
\* the first exit (or wait failure) is observed; any other termination
\* request is sent in the step that abandons the run before an exit was
\* observed, on a spawn failure or a read or write error of a stream, to
\* the workers held at that point.
C18_CancelOnceOrOnAbandon ==
    [][/\ KillLoopRuns =>
            (RaceResolves /\ \A w \in Workers : "race" \notin killReq[w])
       /\ KillSent =>
            \/ RaceResolves
            \/ /\ race = "pending" /\ result = "none"
               /\ result' \in {"spawn_err", "read_err", "write_err"}
               /\ \A w \in Workers :
                    killReq'[w] # killReq[w] => (w \in Held /\ killReq'[w] = {"drop"})]_vars

C18_Witness ==
    /\ PoolRun /\ pc = "done" /\ result = "ok"
    /\ killReq[jobnum] = {"drop"}
    /\ \A w \in Pool \ {jobnum} : killReq[w] = {"race", "drop"}

\* C19: in a multi-worker run "Worker <id> finished fuzzing" is printed at
\* most once; the step that prints it finds a recorded winner that has
\* exited and the stdout and stderr readers of every worker, the killed
\* ones included, at end of stream, and appends the line naming the winner
\* to the caller's stdout; nothing is written to the caller's streams
\* after it; and the winner is only ever a worker that has exited, so a
\* worker that closes its streams while still running resolves nothing.
C19_StatusLineOnceAfterAllStreams ==
    [][PoolRun =>
         /\ Len(FinishedLines') <= 1
         /\ (FinishedLines = <<>> /\ FinishedLines' # <<>>) =>
               /\ race = "ok" /\ jobnum \in Pool /\ proc[jobnum] = "exited"
               /\ \A w \in Pool : \A s \in Streams : rstate[w][s] = "eof"
               /\ console'["stdout"] =
                      Append(console["stdout"], FinishedLine(jobnum))
               /\ console'["stderr"] = console["stderr"]
         /\ (FinishedLines # <<>>) => console' = console
         /\ (race' = "ok") => proc'[jobnum'] = "exited"]_vars

C19_Witness ==
    /\ PoolRun /\ pc = "done"
    /\ FinishedLines = <<FinishedLine(jobnum)>>
    /\ Len(console["stdout"]) = 2 /\ Len(console["stderr"]) = 1
    /\ \E w \in Pool \ {jobnum} :
         /\ proc[w] = "running"
         /\ ForwardedLines(w, "stderr") # <<>>
         /\ \A s \in Streams : rstate[w][s] = "eof"

\* C20: in a multi-worker run a worker is spawned only while no spawn has
\* failed, and it is the worker whose index follows those already spawned;
\* readers exist, lines are consumed or written and the race is decided
\* only once all N workers are spawned; so a run that ends with a spawn
\* failure at index k has spawned exactly 0 .. k-1 with k < N, and has
\* read and forwarded nothing.
C20_SpawnInOrderStopAtFailure ==
    [][PoolRun =>
         /\ \A w \in Workers :
               (proc[w] = "none" /\ proc'[w] # "none") =>
                  /\ pc = "spawning" /\ result = "none"
                  /\ Spawned = 0 .. (w - 1)
                  /\ Spawned' = 0 .. w
         /\ (\/ console' # console \/ nread' # nread
             \/ rstate' # rstate \/ race' # race) => Spawned = Pool
         /\ (result' = "spawn_err") =>
               /\ \E k \in Pool : Spawned' = 0 .. (k - 1)
               /\ console' = [s \in Streams |-> <<>>]
               /\ \A w \in Workers : \A s \in Streams :
                     nread'[w][s] = 0 /\ rstate'[w][s] = "unset"]_vars

C20_Witness ==
    /\ PoolRun /\ pc = "done" /\ result = "spawn_err"
    /\ proc[0] = "exited" /\ proc[MaxJobs - 1] = "none"
    /\ Len(emitted[0]["stdout"]) + Len(emitted[0]["stderr"]) = MaxLines
    /\ console = [s \in Streams |-> <<>>]

\* the multi-worker run has begun and has not returned
PoolActive == PoolRun /\ pc \in {"spawning", "running"}

\* C21 (as claimed), the converse: the multi-worker run, once its event
\* loop was started, has not returned unless some worker has exited and
\* all 2N streams have been closed.
C21_NoReturnWithoutExitAndEof ==
    (PoolRun /\ pc = "done" /\ result # "spawn_err") =>
        /\ \E w \in Pool : proc[w] = "exited"
        /\ \A w \in Pool : \A s \in Streams : ~wopen[w][s]

\* C21 (amended): with the control loop scheduled fairly, some worker
\* exiting and the streams of exited and killed workers ending, a
\* multi-worker run eventually returns; it returns Ok only when some worker
\* has exited and all 2N streams have reached end of stream, and while no
\* worker has exited or a stream is still open it returns only with an
\* error: a spawn failure, a failing wait, or a failing read or write of a
\* stream.
C21_ReturnsWhenExitAndStreamsEnd ==
    /\ PoolActive ~> (pc = "done")
    /\ [](( /\ PoolRun /\ pc = "done"
            /\ \/ \A w \in Pool : proc[w] # "exited"
               \/ \E w \in Pool : \E s \in Streams :
                     wopen[w][s] \/ rstate[w][s] # "eof" ) =>
              result \in {"spawn_err", "wait_err", "read_err", "write_err"})

C21_Witness ==
    /\ PoolRun /\ pc = "done" /\ result = "ok"
    /\ \A w \in Pool \ {jobnum} : proc[w] = "running"
    /\ \A w \in Pool : \A s \in Streams : ~wopen[w][s]
    /\ Len(console["stdout"]) + Len(console["stderr"]) = MaxLines + 1

====
